---- MODULE Spec2Model ----
(***************************************************************************)
(* A model of the BibTeX lexical scanner (scanner.go, token.go).           *)
(*                                                                         *)
(* A rune is modelled as a one-character string; the rune U+0000 is        *)
(* written "NUL".  A Go string / bytes.Buffer is a sequence of runes.      *)
(* The package-level variable parseField is one variable of the model,     *)
(* shared by every scanner; each scanner is a record holding its buffered  *)
(* reader (input text, read offset, whether UnreadRune is allowed) and its *)
(* tokenPos cursor.                                                        *)
(***************************************************************************)
EXTENDS Integers, Sequences, FiniteSets, TLC

VARIABLES parseField, live, s, calls, ops

vars == <<parseField, live, s, calls, ops>>

(***************************************************************************)
(* Bounds of the model.                                                    *)
(***************************************************************************)
\* Longest input text drawn exhaustively over Sigma.
MaxLen == 3
\* Most Scan calls recorded on one scanner.
MaxScans == 5
\* Most read / unread calls made directly on one scanner (SpecReader).
MaxOps == 4

\* The scanner instances a program holds: Spec runs scanner 1 alone,
\* SpecTwo runs scanners 1 and 2 over their own texts, in any interleaving.
Ids == {1, 2}

(***************************************************************************)
(* token.go: runes and character classes.                                  *)
(***************************************************************************)
NUL == "NUL"

\* var eof = rune(0)
eof == NUL

isWhitespace(ch) == ch = " " \/ ch = "\t" \/ ch = "\n" \/ ch = "\r"

LowerLetters ==
    <<"a", "b", "c", "d", "e", "f", "g", "h", "i", "j", "k", "l", "m",
      "n", "o", "p", "q", "r", "s", "t", "u", "v", "w", "x", "y", "z">>

UpperLetters ==
    <<"A", "B", "C", "D", "E", "F", "G", "H", "I", "J", "K", "L", "M",
      "N", "O", "P", "Q", "R", "S", "T", "U", "V", "W", "X", "Y", "Z">>

Range(f) == {f[i] : i \in DOMAIN f}

isAlpha(ch) == ch \in Range(LowerLetters) \/ ch \in Range(UpperLetters)

Digits == <<"0", "1", "2", "3", "4", "5", "6", "7", "8", "9">>

isDigit(ch) == ch \in Range(Digits)

isAlphanum(ch) == isAlpha(ch) \/ isDigit(ch)

isBareSymbol(ch) == ch \in {"-", "_", ":", ".", "/", "+"}

(***************************************************************************)
(* Token kinds.  Scan returns the literal 0 at end of input; token.go      *)
(* declares ILLEGAL as the first iota constant.  The remaining kinds are   *)
(* declared outside the two source files; they are pairwise distinct.      *)
(***************************************************************************)
tEOF == 0
tILLEGAL == 0
tCOMMENT == 1
tSTRING == 2
tPREAMBLE == 3
tATSIGN == 4
tCOLON == 5
tEQUAL == 6
tCOMMA == 7
tPOUND == 8
tLBRACE == 9
tRBRACE == 10
tIDENT == 11
tBAREIDENT == 12

(***************************************************************************)
(* The position-tracked reader.                                            *)
(***************************************************************************)
\* newScanner: a buffered reader at the start of text r, cursor 0 / no lines.
\* `last` is bufio's "the last operation was a successful ReadRune"; `got` is
\* the rune the last read() returned; `misused` records that unread() ran when
\* the call before it was not a read() that returned a rune other than eof.
newScanner(r) ==
    [src |-> r, off |-> 0, last |-> FALSE, got |-> eof, misused |-> FALSE,
     pos |-> [Char |-> 0, Lines |-> <<>>], crashed |-> FALSE]

readNoColumn(sc) ==
    IF sc.crashed \/ sc.off >= Len(sc.src)
    THEN [s |-> [sc EXCEPT !.last = FALSE, !.got = eof], ch |-> eof]
    ELSE LET ch == sc.src[sc.off + 1]
         IN  [s |-> [sc EXCEPT
                       !.off = @ + 1,
                       !.last = TRUE,
                       !.got = ch,
                       !.pos = IF ch = "\n"
                               THEN [Char |-> 0, Lines |-> Append(@.Lines, @.Char)]
                               ELSE @],
              ch |-> ch]

readNoLineReset(sc) ==
    IF sc.crashed \/ sc.off >= Len(sc.src)
    THEN [s |-> [sc EXCEPT !.last = FALSE, !.got = eof], ch |-> eof]
    ELSE LET ch == sc.src[sc.off + 1]
         IN  [s |-> [sc EXCEPT
                       !.off = @ + 1,
                       !.last = TRUE,
                       !.got = ch,
                       !.pos = IF ch = "\n"
                               THEN [Char |-> @.Char, Lines |-> Append(@.Lines, @.Char)]
                               ELSE [@ EXCEPT !.Char = @ + 1]],
              ch |-> ch]

\* read: the next rune, or eof when ReadRune reports an error.
read(sc) ==
    IF sc.crashed \/ sc.off >= Len(sc.src)
    THEN [s |-> [sc EXCEPT !.last = FALSE, !.got = eof], ch |-> eof]
    ELSE LET ch == sc.src[sc.off + 1]
         IN  [s |-> [sc EXCEPT
                       !.off = @ + 1,
                       !.last = TRUE,
                       !.got = ch,
                       !.pos = IF ch = "\n"
                               THEN [Char |-> 0, Lines |-> Append(@.Lines, @.Char)]
                               ELSE [@ EXCEPT !.Char = @ + 1]],
              ch |-> ch]

unreadNoPop(sc) ==
    LET u == IF sc.last
             THEN [sc EXCEPT !.off = @ - 1, !.last = FALSE,
                             !.misused = @ \/ sc.got = eof]
             ELSE [sc EXCEPT !.misused = TRUE]
    IN  IF u.crashed THEN u
        ELSE IF u.pos.Char = 0
        THEN IF u.pos.Lines = <<>>
             THEN [u EXCEPT !.crashed = TRUE]
             ELSE [u EXCEPT !.pos.Char = u.pos.Lines[Len(u.pos.Lines)]]
        ELSE [u EXCEPT !.pos.Char = @ - 1]

\* unread: UnreadRune (its error is dropped), then the cursor steps back.
\* Indexing Lines[len-1] of an empty history is a run-time panic (crashed).
unread(sc) ==
    LET u == IF sc.last
             THEN [sc EXCEPT !.off = @ - 1, !.last = FALSE,
                             !.misused = @ \/ sc.got = eof]
             ELSE [sc EXCEPT !.misused = TRUE]
    IN  IF u.crashed THEN u
        ELSE IF u.pos.Char = 0
        THEN IF u.pos.Lines = <<>>
             THEN [u EXCEPT !.crashed = TRUE]
             ELSE [u EXCEPT !.pos = [Char |-> u.pos.Lines[Len(u.pos.Lines)],
                                     Lines |-> SubSeq(u.pos.Lines, 1, Len(u.pos.Lines) - 1)]]
        ELSE [u EXCEPT !.pos.Char = @ - 1]

RECURSIVE ignoreWhitespaceUnreadAtEof(_)
ignoreWhitespaceUnreadAtEof(sc) ==
    LET r == read(sc)
    IN  IF r.ch = eof \/ ~isWhitespace(r.ch) THEN unread(r.s)
        ELSE ignoreWhitespaceUnreadAtEof(r.s)

RECURSIVE ignoreWhitespace(_)
\* ignoreWhitespace: consume the contiguous whitespace, push back what ends it.
ignoreWhitespace(sc) ==
    LET r == read(sc)
    IN  IF r.ch = eof THEN r.s
        ELSE IF ~isWhitespace(r.ch) THEN unread(r.s)
        ELSE ignoreWhitespace(r.s)

(***************************************************************************)
(* Library functions the scanner calls.                                    *)
(***************************************************************************)
\* strings.ToLower, on one rune and on a string.
toLowerRune(ch) ==
    IF \E i \in DOMAIN UpperLetters : UpperLetters[i] = ch
    THEN LowerLetters[CHOOSE i \in DOMAIN UpperLetters : UpperLetters[i] = ch]
    ELSE ch

ToLower(str) == [i \in DOMAIN str |-> toLowerRune(str[i])]

\* The width of Go's int on the build the model describes.
IntSize == 64

\* The decimal digits of 2^(IntSize-1) - 1, the largest int.
MaxIntDigits ==
    IF IntSize = 64
    THEN <<"9", "2", "2", "3", "3", "7", "2", "0", "3", "6", "8", "5", "4", "7", "7", "5", "8", "0", "7">>
    ELSE <<"2", "1", "4", "7", "4", "8", "3", "6", "4", "7">>

digitValue(ch) == (CHOOSE i \in DOMAIN Digits : Digits[i] = ch) - 1

RECURSIVE stripZeros(_)
stripZeros(ds) == IF ds # <<>> /\ Head(ds) = "0" THEN stripZeros(Tail(ds)) ELSE ds

\* ds <= limit for two digit strings without leading zeros.
RECURSIVE digitsLeq(_, _)
digitsLeq(ds, limit) ==
    IF Len(ds) # Len(limit) THEN Len(ds) < Len(limit)
    ELSE IF ds = <<>> THEN TRUE
    ELSE IF Head(ds) # Head(limit) THEN digitValue(Head(ds)) < digitValue(Head(limit))
    ELSE digitsLeq(Tail(ds), Tail(limit))

\* strconv.Atoi(str) returns a nil error: an optional sign, then one or more
\* decimal digits whose value fits an int.  (The magnitude 2^(IntSize-1) itself
\* is accepted only with a minus sign.)
atoiOk(str) ==
    LET signed == str # <<>> /\ Head(str) \in {"+", "-"}
        ds == IF signed THEN Tail(str) ELSE str
        mag == stripZeros(ds)
    IN  /\ ds # <<>>
        /\ \A i \in DOMAIN ds : isDigit(ds[i])
        /\ \/ digitsLeq(mag, MaxIntDigits)
           \/ /\ signed /\ Head(str) = "-"
              /\ Len(mag) = Len(MaxIntDigits)
              /\ SubSeq(mag, 1, Len(mag) - 1) = SubSeq(MaxIntDigits, 1, Len(mag) - 1)
              /\ digitValue(mag[Len(mag)]) = digitValue(MaxIntDigits[Len(mag)]) + 1

(***************************************************************************)
(* The literal sub-scanners.  Each returns the token, the literal, the     *)
(* scanner after the call and the value of parseField after the call.      *)
(***************************************************************************)
Ret(tok, lit, sc, pf) == [tok |-> tok, lit |-> lit, s |-> sc, pf |-> pf]

RECURSIVE scanBareLoop(_, _, _)
\* The for loop of scanBare: buf and trailingWhitespace when it breaks.
scanBareLoop(sc, buf, trailingWhitespace) ==
    LET r == read(sc)
    IN  IF r.ch = eof
        THEN [s |-> r.s, buf |-> buf, tw |-> trailingWhitespace]
        ELSE IF ~isAlphanum(r.ch) /\ ~isBareSymbol(r.ch) /\ ~isWhitespace(r.ch)
        THEN [s |-> unread(r.s), buf |-> buf, tw |-> trailingWhitespace]
        ELSE scanBareLoop(r.s, Append(buf, r.ch),
                          IF isWhitespace(r.ch) THEN trailingWhitespace + 1 ELSE 0)

classifyBareCaseSensitive(str, pf) ==
    IF str = <<"c", "o", "m", "m", "e", "n", "t">> THEN tCOMMENT
    ELSE IF str = <<"p", "r", "e", "a", "m", "b", "l", "e">> THEN tPREAMBLE
    ELSE IF str = <<"s", "t", "r", "i", "n", "g">> THEN tSTRING
    ELSE IF atoiOk(str) /\ pf THEN tIDENT
    ELSE tBAREIDENT

classifyBareAnyContext(str, pf) ==
    IF ToLower(str) = <<"c", "o", "m", "m", "e", "n", "t">> THEN tCOMMENT
    ELSE IF ToLower(str) = <<"p", "r", "e", "a", "m", "b", "l", "e">> THEN tPREAMBLE
    ELSE IF ToLower(str) = <<"s", "t", "r", "i", "n", "g">> THEN tSTRING
    ELSE IF atoiOk(str) THEN tIDENT
    ELSE tBAREIDENT

\* The classification of the trimmed literal str (the if/else chain).
classifyBare(str, pf) ==
    IF ToLower(str) = <<"c", "o", "m", "m", "e", "n", "t">> THEN tCOMMENT
    ELSE IF ToLower(str) = <<"p", "r", "e", "a", "m", "b", "l", "e">> THEN tPREAMBLE
    ELSE IF ToLower(str) = <<"s", "t", "r", "i", "n", "g">> THEN tSTRING
    ELSE IF atoiOk(str) /\ pf THEN tIDENT
    ELSE tBAREIDENT

scanBare(sc, pf) ==
    LET l == scanBareLoop(sc, <<>>, 0)
        str == SubSeq(l.buf, 1, Len(l.buf) - l.tw)
    IN  Ret(classifyBare(str, pf), str, l.s, pf)

bracedUnterminatedAsIdent(sc, pf, buf) == Ret(tIDENT, buf, sc, pf)

\* scanBraced after its loop broke on eof: return tILLEGAL, buf.String().
bracedUnterminated(sc, pf, buf) == Ret(tILLEGAL, buf, sc, pf)

RECURSIVE scanBracedLoop(_, _, _, _)
\* The for loop of scanBraced; brace is the depth, buf the text so far.
scanBracedLoop(sc, pf, buf, brace) ==
    LET r == read(sc)
    IN  IF r.ch = eof THEN bracedUnterminated(r.s, pf, buf)
        ELSE IF r.ch = "\\" THEN scanBracedLoop(r.s, pf, Append(buf, r.ch), brace)
        ELSE IF r.ch = "{" THEN scanBracedLoop(r.s, pf, Append(buf, r.ch), brace + 1)
        ELSE IF r.ch = "}"
        THEN IF brace - 1 = 0
             THEN Ret(tIDENT, buf, r.s, pf)
             ELSE scanBracedLoop(r.s, pf, Append(buf, r.ch), brace - 1)
        ELSE scanBracedLoop(r.s, pf, Append(buf, r.ch), brace)

scanBracedDepthZero(sc, pf) == scanBracedLoop(sc, pf, <<>>, 0)

\* scanBraced parses a braced string, like {this}; the '{' is consumed.
scanBraced(sc, pf) == scanBracedLoop(sc, pf, <<>>, 1)

\* scanQuoted after its loop broke on eof: return tILLEGAL, buf.String().
quotedUnterminated(sc, pf, buf) == Ret(tILLEGAL, buf, sc, pf)

RECURSIVE scanQuotedLoop(_, _, _, _)
\* The for loop of scanQuoted: '{' and '}' change the depth and are not
\* written to buf.
scanQuotedLoop(sc, pf, buf, brace) ==
    LET r == read(sc)
    IN  IF r.ch = eof THEN quotedUnterminated(r.s, pf, buf)
        ELSE IF r.ch = "{" THEN scanQuotedLoop(r.s, pf, buf, brace + 1)
        ELSE IF r.ch = "}" THEN scanQuotedLoop(r.s, pf, buf, brace - 1)
        ELSE IF r.ch = "\""
        THEN IF brace = 0
             THEN Ret(tIDENT, buf, r.s, pf)
             ELSE scanQuotedLoop(r.s, pf, Append(buf, r.ch), brace)
        ELSE scanQuotedLoop(r.s, pf, Append(buf, r.ch), brace)

scanQuotedDepthOne(sc, pf) == scanQuotedLoop(sc, pf, <<>>, 1)

\* scanQuoted parses a quoted string, like "this"; the '"' is consumed.
scanQuoted(sc, pf) == scanQuotedLoop(sc, pf, <<>>, 0)

scanIdentNoUnread(sc, pf) ==
    LET r == read(sc)
    IN  IF r.ch = "\"" THEN scanQuoted(r.s, pf)
        ELSE IF r.ch = "{" THEN scanBraced(r.s, pf)
        ELSE scanBare(r.s, pf)

\* scanIdent: one rune of lookahead chooses the sub-scanner.
scanIdent(sc, pf) ==
    LET r == read(sc)
    IN  IF r.ch = "\"" THEN scanQuoted(r.s, pf)
        ELSE IF r.ch = "{" THEN scanBraced(r.s, pf)
        ELSE scanBare(unread(r.s), pf)

ScanPushBackIllegal(sc, pf) ==
    LET r1 == read(sc)
        r2 == IF isWhitespace(r1.ch) THEN read(ignoreWhitespace(r1.s)) ELSE r1
        ch == r2.ch
    IN  IF isAlphanum(ch) THEN scanIdent(unread(r2.s), pf)
        ELSE IF ch = eof THEN Ret(tEOF, <<>>, r2.s, pf)
        ELSE IF ch = "@" THEN Ret(tATSIGN, <<ch>>, r2.s, pf)
        ELSE IF ch = ":" THEN Ret(tCOLON, <<ch>>, r2.s, pf)
        ELSE IF ch = "," THEN Ret(tCOMMA, <<ch>>, r2.s, FALSE)
        ELSE IF ch = "=" THEN Ret(tEQUAL, <<ch>>, r2.s, TRUE)
        ELSE IF ch = "\"" THEN scanQuoted(r2.s, pf)
        ELSE IF ch = "{"
        THEN IF pf THEN scanBraced(r2.s, pf) ELSE Ret(tLBRACE, <<ch>>, r2.s, pf)
        ELSE IF ch = "}" THEN Ret(tRBRACE, <<ch>>, r2.s, IF pf THEN FALSE ELSE pf)
        ELSE IF ch = "#" THEN Ret(tPOUND, <<ch>>, r2.s, pf)
        ELSE IF ch = " " THEN Ret(tILLEGAL, <<ch>>, ignoreWhitespace(r2.s), pf)
        ELSE Ret(tILLEGAL, <<ch>>, unread(r2.s), pf)

(***************************************************************************)
(* Scan: the next token and literal.                                       *)
(***************************************************************************)
ScanFn(sc, pf) ==
    LET r1 == read(sc)
        r2 == IF isWhitespace(r1.ch) THEN read(ignoreWhitespace(r1.s)) ELSE r1
        ch == r2.ch
    IN  IF isAlphanum(ch) THEN scanIdent(unread(r2.s), pf)
        ELSE IF ch = eof THEN Ret(tEOF, <<>>, r2.s, pf)
        ELSE IF ch = "@" THEN Ret(tATSIGN, <<ch>>, r2.s, pf)
        ELSE IF ch = ":" THEN Ret(tCOLON, <<ch>>, r2.s, pf)
        ELSE IF ch = "," THEN Ret(tCOMMA, <<ch>>, r2.s, FALSE)
        ELSE IF ch = "=" THEN Ret(tEQUAL, <<ch>>, r2.s, TRUE)
        ELSE IF ch = "\"" THEN scanQuoted(r2.s, pf)
        ELSE IF ch = "{"
        THEN IF pf THEN scanBraced(r2.s, pf) ELSE Ret(tLBRACE, <<ch>>, r2.s, pf)
        ELSE IF ch = "}" THEN Ret(tRBRACE, <<ch>>, r2.s, IF pf THEN FALSE ELSE pf)
        ELSE IF ch = "#" THEN Ret(tPOUND, <<ch>>, r2.s, pf)
        ELSE IF ch = " " THEN Ret(tILLEGAL, <<ch>>, ignoreWhitespace(r2.s), pf)
        ELSE Ret(tILLEGAL, <<ch>>, r2.s, pf)

(***************************************************************************)
(* Input texts.                                                            *)
(***************************************************************************)
\* The runes drawn exhaustively: one of each class the scanner tells apart.
Sigma == {NUL, " ", "\n", "a", "1", ":", "@", ",", "=", "\"", "{", "}", "#", "\\"}

Texts(n) == UNION {[1..k -> Sigma] : k \in 0..n}

\* Longer texts: reserved words, numerals at the edge of int, nested literals.
Examples ==
    { <<"c", "o", "m", "m", "e", "n", "t">>,
      <<"@", "C", "o", "m", "m", "e", "n", "t", "{">>,
      <<"=", "C", "O", "M", "M", "E", "N", "T", " ", ",">>,
      <<"P", "r", "e", "a", "m", "b", "l", "e", "=">>,
      <<"=", "p", "r", "e", "a", "m", "b", "l", "e">>,
      <<"S", "T", "R", "i", "n", "g", "\n", "{">>,
      <<"=", "s", "t", "r", "i", "n", "g">>,
      <<"s", "t", "r", "i", "n", "g", "s">>,
      <<"k", "e", "y", " ", "=", " ", "1", "9", "9", "9", ",">>,
      <<"{", "1", "9", "9", "9", ",">>,
      <<"1", "9", "9", "9", "=", "1", "9", "9", "9">>,
      <<"=", " ", "1", "9", " ", "9", "9">>,
      <<"=", "9", "2", "2", "3", "3", "7", "2", "0", "3", "6", "8", "5", "4", "7", "7", "5", "8", "0", "7">>,
      <<"=", "9", "2", "2", "3", "3", "7", "2", "0", "3", "6", "8", "5", "4", "7", "7", "5", "8", "0", "8">>,
      <<"=", "0", "0", "9", "2", "2", "3", "3", "7", "2", "0", "3", "6", "8", "5", "4", "7", "7", "5", "8", "0", "7">>,
      <<"=", "{", "a", "{", "b", "}", "c", "}", ",">>,
      <<"=", "{", "\\", "{", "a", "}", "}", "}">>,
      <<"=", "{", "{", "a", "b", "c">>,
      <<"=", "{", "a", " ", "=", ",", "}", "}">>,
      <<"\"", "a", " ", "{", "\"", "n", "\"", "}", " ", "b", "\"", ",">>,
      <<"\"", "}", "\"", "{", "\"", "a">>,
      <<"=", "\"", "{", "a", "b">>,
      <<"=", "\"", "a", "=", ",", "}", "{", "\"", "b">> }

Inputs == Texts(MaxLen) \cup Examples

\* The texts of SpecTwo: short, over the runes that read or write parseField.
SigmaTwo == {"=", ",", "{", "}", "1", "a"}

SmallInputs == UNION {[1..k -> SigmaTwo] : k \in {1, 2}}

(***************************************************************************)
(* The state machine.                                                      *)
(***************************************************************************)
TypeOK ==
    /\ parseField \in BOOLEAN
    /\ live \subseteq Ids
    /\ DOMAIN s = Ids
    /\ DOMAIN calls = Ids
    /\ DOMAIN ops = Ids

\* Program start: parseField has its zero value, no scanner exists yet.
Init ==
    /\ parseField = FALSE
    /\ live = {}
    /\ s = [i \in Ids |-> newScanner(<<>>)]
    /\ calls = [i \in Ids |-> <<>>]
    /\ ops = [i \in Ids |-> <<>>]

\* newScanner(r): scanner i is built over one of the texts.  parseField is a
\* package-level variable and newScanner does not assign it.
NewScanner(i, texts) ==
    /\ i \notin live
    /\ \E r \in texts :
         /\ live' = live \cup {i}
         /\ s' = [s EXCEPT ![i] = newScanner(r)]
         /\ calls' = [calls EXCEPT ![i] = <<>>]
    /\ UNCHANGED <<parseField, ops>>

\* One call of s[i].Scan().  calls[i] records, for each call on scanner i,
\* the scanner and flag before and after and what was returned.
Scan(i) ==
    /\ i \in live
    /\ ~s[i].crashed
    /\ Len(calls[i]) < MaxScans
    /\ LET res == ScanFn(s[i], parseField)
       IN  /\ s' = [s EXCEPT ![i] = res.s]
           /\ parseField' = res.pf
           /\ calls' = [calls EXCEPT ![i] =
                          Append(@, [tok |-> res.tok, lit |-> res.lit,
                                     s0 |-> s[i], s1 |-> res.s,
                                     pf0 |-> parseField, pf1 |-> res.pf])]
    /\ UNCHANGED <<live, ops>>

\* One call of s[i].read() made on its own.  ops[i] records each reader call:
\* the scanner before and after and the rune returned.
ReadOp(i) ==
    /\ i \in live
    /\ Len(ops[i]) < MaxOps
    /\ LET r == read(s[i])
       IN  /\ s' = [s EXCEPT ![i] = r.s]
           /\ ops' = [ops EXCEPT ![i] =
                        Append(@, [op |-> "read", ch |-> r.ch,
                                   s0 |-> s[i], s1 |-> r.s])]
    /\ UNCHANGED <<parseField, live, calls>>

\* One call of s[i].unread() made on its own, right after a read() that
\* returned a rune of the text (the only use unread's contract allows).
UnreadOp(i) ==
    /\ i \in live
    /\ Len(ops[i]) < MaxOps
    /\ ops[i] # <<>>
    /\ ops[i][Len(ops[i])].op = "read"
    /\ s[i].last
    /\ LET u == unread(s[i])
       IN  /\ s' = [s EXCEPT ![i] = u]
           /\ ops' = [ops EXCEPT ![i] =
                        Append(@, [op |-> "unread", ch |-> s[i].got,
                                   s0 |-> s[i], s1 |-> u])]
    /\ UNCHANGED <<parseField, live, calls>>

Next ==
    \/ NewScanner(1, Inputs)
    \/ Scan(1)

Spec == Init /\ [][Next]_vars

NextTwo ==
    \/ \E i \in Ids : NewScanner(i, SmallInputs)
    \/ \E i \in Ids : Scan(i)

SpecTwo == Init /\ [][NextTwo]_vars

\* The reader driven directly: read and unread in any order the contract allows.
NextReader ==
    \/ NewScanner(1, Inputs)
    \/ ReadOp(1)
    \/ UnreadOp(1)

SpecReader == Init /\ [][NextReader]_vars

(***************************************************************************)
(* Vocabulary of the properties.  A call c is one record of calls[i]; the  *)
(* properties describe what it returned from the input text alone.         *)
(***************************************************************************)
Calls == UNION {Range(calls[i]) : i \in live}

Min(S) == CHOOSE x \in S : \A y \in S : x <= y

\* Index in the text of the first rune at or after the cursor that is not
\* whitespace; 0 when only whitespace (or nothing) is left.
DispatchAt(c) ==
    LET S == {p \in (c.s0.off + 1)..Len(c.s0.src) : ~isWhitespace(c.s0.src[p])}
    IN  IF S = {} THEN 0 ELSE Min(S)

\* The call dispatched on rune ch.
DispatchedOn(c, ch) == DispatchAt(c) # 0 /\ c.s0.src[DispatchAt(c)] = ch

\* The text after the dispatched rune.
Body(c) == SubSeq(c.s0.src, DispatchAt(c) + 1, Len(c.s0.src))

\* The text the call consumed.
Consumed(c) == SubSeq(c.s0.src, c.s0.off + 1, c.s1.off)

Count(str, ch) == Cardinality({j \in DOMAIN str : str[j] = ch})

\* Opening minus closing braces among the first k runes of str.
Depth(str, k) == Count(SubSeq(str, 1, k), "{") - Count(SubSeq(str, 1, k), "}")

\* The first k runes of str can all be read: none is the rune read() returns
\* for end of input.
Readable(str, k) == \A j \in 1..k : str[j] # NUL

EnteredBraced(c) == DispatchedOn(c, "{") /\ c.pf0

EnteredQuoted(c) == DispatchedOn(c, "\"")

EnteredBare(c) == DispatchAt(c) # 0 /\ isAlphanum(c.s0.src[DispatchAt(c)])

\* Positions of Body(c) holding a '}' that brings the braced depth to zero.
BracedCloses(c) ==
    {k \in DOMAIN Body(c) : /\ Body(c)[k] = "}"
                            /\ 1 + Depth(Body(c), k) = 0
                            /\ Readable(Body(c), k - 1)}

\* Positions of Body(c) holding a '"' read at depth zero.
QuotedCloses(c) ==
    {k \in DOMAIN Body(c) : /\ Body(c)[k] = "\""
                            /\ Depth(Body(c), k - 1) = 0
                            /\ Readable(Body(c), k - 1)}

NotBrace(ch) == ch # "{" /\ ch # "}"

\* The call returned from Scan's `case eof`.
ReturnedEOF(c) ==
    /\ c.tok = tEOF /\ c.lit = <<>>
    /\ DispatchAt(c) = 0 \/ DispatchedOn(c, NUL)

(***************************************************************************)
(* Properties.                                                             *)
(***************************************************************************)

\* C1: once a Scan call on a scanner has returned EOF, every later call on
\* that scanner returns EOF with an empty literal and leaves the cursor, the
\* read offset and parseField as they were.
C1_EofIsTerminal ==
    \A i \in live : \A j, k \in DOMAIN calls[i] :
        (j < k /\ ReturnedEOF(calls[i][j])) =>
            /\ calls[i][k].tok = tEOF
            /\ calls[i][k].lit = <<>>
            /\ calls[i][k].s1.pos = calls[i][k].s0.pos
            /\ calls[i][k].s1.off = calls[i][k].s0.off
            /\ calls[i][k].pf1 = calls[i][k].pf0

\* The most recent EQUAL, COMMA or RBRACE token among the first n calls
\* recorded in cs, or -1 when there is none.
RECURSIVE LastFlagToken(_, _)
LastFlagToken(cs, n) ==
    IF n = 0 THEN -1
    ELSE IF cs[n].tok \in {tEQUAL, tCOMMA, tRBRACE} THEN cs[n].tok
    ELSE LastFlagToken(cs, n - 1)

\* C2: after any sequence of Scan calls on a scanner, its field-context flag
\* is set if and only if the most recent EQUAL, COMMA or RBRACE token that
\* scanner returned is EQUAL (clear if it returned none); a call returning any
\* other token leaves the flag as it was.
C2_FlagFollowsOwnTokens ==
    \A i \in live :
        /\ parseField = (LastFlagToken(calls[i], Len(calls[i])) = tEQUAL)
        /\ \A k \in DOMAIN calls[i] :
               calls[i][k].tok \notin {tEQUAL, tCOMMA, tRBRACE} =>
                   calls[i][k].pf1 = calls[i][k].pf0

\* C3: a Scan call that dispatches on '{' runs the braced scanner and returns
\* IDENT or ILLEGAL when the flag is set, and consumes that one rune and
\* returns LBRACE "{" when the flag is clear; so no scanner returns LBRACE
\* after an EQUAL without a COMMA or RBRACE of its own in between.
C3_NoLbraceInField ==
    /\ \A c \in Calls :
           DispatchedOn(c, "{") =>
               IF c.pf0
               THEN c.tok \in {tIDENT, tILLEGAL} /\ c.tok # tLBRACE
               ELSE /\ c.tok = tLBRACE /\ c.lit = <<"{">>
                    /\ c.s1.off = DispatchAt(c)
    /\ \A i \in live : \A j, k \in DOMAIN calls[i] :
           (j < k /\ calls[i][j].tok = tEQUAL /\ calls[i][k].tok = tLBRACE) =>
               \E m \in (j + 1)..(k - 1) : calls[i][m].tok \in {tCOMMA, tRBRACE}

\* C4: the braced scanner, entered after the '{', returns IDENT at the first
\* '}' that brings the depth to zero; the literal is the text before that '}',
\* verbatim (nested braces, whitespace and backslashes included), the '}' is
\* consumed, and a brace after a backslash counts like any other.
C4_BracedLiteral ==
    \A c \in Calls :
        EnteredBraced(c) =>
            /\ c.tok = tIDENT <=> BracedCloses(c) # {}
            /\ BracedCloses(c) # {} =>
                   LET k == Min(BracedCloses(c))
                   IN  /\ c.lit = SubSeq(Body(c), 1, k - 1)
                       /\ c.s1.off = DispatchAt(c) + k

\* C4 witness: in field context "{a{b}c}" was scanned as IDENT a{b}c, and
\* "{\{a}}" as IDENT \{a}.
C4_Witness ==
    /\ \E c \in Calls :
           /\ EnteredBraced(c) /\ c.tok = tIDENT
           /\ c.lit = <<"a", "{", "b", "}", "c">>
    \/ \E c \in Calls :
           /\ EnteredBraced(c) /\ c.tok = tIDENT
           /\ c.lit = <<"\\", "{", "a", "}">>

\* C5: the quoted scanner copies every rune it reads before the closing quote
\* into the literal, braces included: an IDENT literal is the exact text
\* between the opening and the closing quote.
C5_QuotedVerbatim ==
    \A c \in Calls :
        (EnteredQuoted(c) /\ c.tok = tIDENT) =>
            c.lit = SubSeq(c.s0.src, DispatchAt(c) + 1, c.s1.off - 1)

\* C6: the quoted scanner, entered after the '"' with depth 0, returns IDENT
\* at the first '"' read while the (unclamped, possibly negative) depth is
\* zero; that quote is consumed and is not in the literal; a '"' read at a
\* nonzero depth does not end the scan and is kept in the literal.
C6_QuotedClose ==
    \A c \in Calls :
        EnteredQuoted(c) =>
            /\ c.tok = tIDENT <=> QuotedCloses(c) # {}
            /\ QuotedCloses(c) # {} =>
                   LET k == Min(QuotedCloses(c))
                   IN  /\ c.s1.off = DispatchAt(c) + k
                       /\ c.lit = SelectSeq(SubSeq(Body(c), 1, k - 1), NotBrace)

\* C6 witness: a quoted scan returned IDENT with a '"' in its literal, read
\* at negative depth ("}"{" gives the literal ").
C6_Witness ==
    \E c \in Calls :
        /\ EnteredQuoted(c) /\ c.tok = tIDENT
        /\ \E j \in DOMAIN Body(c) :
               /\ j < Min(QuotedCloses(c))
               /\ Body(c)[j] = "\""
               /\ Depth(Body(c), j - 1) < 0
        /\ Count(c.lit, "\"") > 0

\* The call read to the real end of the text inside a braced / quoted scan.
BracedToEnd(c) ==
    EnteredBraced(c) /\ BracedCloses(c) = {} /\ Readable(Body(c), Len(Body(c)))

QuotedToEnd(c) ==
    EnteredQuoted(c) /\ QuotedCloses(c) = {} /\ Readable(Body(c), Len(Body(c)))

\* C7: when the input ends inside a braced scan before the depth is back to
\* zero, or inside a quoted scan before a closing quote at depth zero, Scan
\* returns ILLEGAL with what was accumulated, the input is used up and the
\* next call returns EOF; a braced or quoted scan returns IDENT only after
\* reading its closing delimiter.
C7_Unterminated ==
    /\ \A c \in Calls :
           /\ BracedToEnd(c) =>
                  /\ c.tok = tILLEGAL /\ c.lit = Body(c)
                  /\ c.s1.off = Len(c.s0.src)
           /\ QuotedToEnd(c) =>
                  /\ c.tok = tILLEGAL /\ c.lit = SelectSeq(Body(c), NotBrace)
                  /\ c.s1.off = Len(c.s0.src)
           /\ ((EnteredBraced(c) \/ EnteredQuoted(c)) /\ c.tok = tIDENT) =>
                  /\ c.s1.off > DispatchAt(c)
                  /\ c.s0.src[c.s1.off] = (IF EnteredBraced(c) THEN "}" ELSE "\"")
                  /\ Depth(Body(c), c.s1.off - DispatchAt(c) - 1) = 0
                  /\ Readable(Body(c), c.s1.off - DispatchAt(c) - 1)
    /\ \A i \in live : \A k \in DOMAIN calls[i] :
           ((BracedToEnd(calls[i][k]) \/ QuotedToEnd(calls[i][k]))
               /\ k + 1 \in DOMAIN calls[i]) =>
               /\ calls[i][k + 1].tok = tEOF
               /\ calls[i][k + 1].lit = <<>>

\* C7 witness: "{{abc" in field context returned ILLEGAL "{abc", and the call
\* after it returned EOF.
C7_Witness ==
    \E i \in live : \E k \in DOMAIN calls[i] :
        /\ BracedToEnd(calls[i][k])
        /\ calls[i][k].lit = <<"{", "a", "b", "c">>
        /\ k + 1 \in DOMAIN calls[i]
        /\ ReturnedEOF(calls[i][k + 1])

AllDigits(str) == str # <<>> /\ \A j \in DOMAIN str : isDigit(str[j])

\* str is word in some mix of upper and lower case.
EqualFold(str, word) ==
    /\ Len(str) = Len(word)
    /\ \A j \in DOMAIN str :
           \/ str[j] = word[j]
           \/ \E n \in DOMAIN LowerLetters :
                  LowerLetters[n] = word[j] /\ UpperLetters[n] = str[j]

Comment == <<"c", "o", "m", "m", "e", "n", "t">>
Preamble == <<"p", "r", "e", "a", "m", "b", "l", "e">>
String == <<"s", "t", "r", "i", "n", "g">>

Reserved(str) ==
    EqualFold(str, Comment) \/ EqualFold(str, Preamble) \/ EqualFold(str, String)

\* The value of the numeral str is at most the largest int.
FitsInt(str) == digitsLeq(stripZeros(str), MaxIntDigits)

\* C8 as stated: a bare literal made only of decimal digits is IDENT when the
\* flag is set as it is scanned and BARE-IDENT when it is clear; a bare
\* literal that is neither a numeral nor a reserved word is BARE-IDENT
\* whatever the flag.
C8_Original ==
    \A c \in Calls :
        EnteredBare(c) =>
            /\ AllDigits(c.lit) => c.tok = (IF c.pf0 THEN tIDENT ELSE tBAREIDENT)
            /\ (~AllDigits(c.lit) /\ ~Reserved(c.lit)) => c.tok = tBAREIDENT

\* C8 (amended): a bare literal made only of decimal digits whose value fits
\* an int is IDENT when the flag is set as it is scanned and BARE-IDENT when
\* it is clear; a numeral too large for an int, and a bare literal that is
\* neither a numeral nor a reserved word, is BARE-IDENT whatever the flag.
C8_NumeralByContext ==
    \A c \in Calls :
        EnteredBare(c) =>
            /\ (AllDigits(c.lit) /\ FitsInt(c.lit)) =>
                   c.tok = (IF c.pf0 THEN tIDENT ELSE tBAREIDENT)
            /\ (AllDigits(c.lit) /\ ~FitsInt(c.lit)) => c.tok = tBAREIDENT
            /\ (~AllDigits(c.lit) /\ ~Reserved(c.lit)) => c.tok = tBAREIDENT

\* C8 witness: one scanner returned 1999 as BARE-IDENT with the flag clear
\* and, right after an EQUAL token, 1999 as IDENT with the flag set.
C8_Witness ==
    \E i \in live : \E j, k \in DOMAIN calls[i] :
        /\ EnteredBare(calls[i][j]) /\ ~calls[i][j].pf0
        /\ calls[i][j].lit = <<"1", "9", "9", "9">>
        /\ calls[i][j].tok = tBAREIDENT
        /\ k > 1 /\ calls[i][k - 1].tok = tEQUAL
        /\ EnteredBare(calls[i][k]) /\ calls[i][k].pf0
        /\ calls[i][k].lit = <<"1", "9", "9", "9">>
        /\ calls[i][k].tok = tIDENT

\* C9: a trimmed bare literal that is "comment", "preamble" or "string" in
\* any mix of case is returned as COMMENT, PREAMBLE or STRING, whatever the
\* flag, and no other bare literal is; the literal keeps the case of the text.
C9_ReservedWords ==
    \A c \in Calls :
        EnteredBare(c) =>
            /\ c.tok = tCOMMENT <=> EqualFold(c.lit, Comment)
            /\ c.tok = tPREAMBLE <=> EqualFold(c.lit, Preamble)
            /\ c.tok = tSTRING <=> EqualFold(c.lit, String)
            /\ c.lit = SubSeq(c.s0.src, DispatchAt(c), DispatchAt(c) + Len(c.lit) - 1)

\* C9 witness: with the flag set, "COMMENT " was returned as COMMENT with the
\* literal in upper case and the trailing blank trimmed.
C9_Witness ==
    \E c \in Calls :
        /\ EnteredBare(c) /\ c.pf0
        /\ c.tok = tCOMMENT
        /\ c.lit = <<"C", "O", "M", "M", "E", "N", "T">>
        /\ c.s1.off > DispatchAt(c) + Len(c.lit) - 1

\* The tokens and literals of n Scan calls on scanner sc when the flag is
\* pf before the first and nothing else touches it.
RECURSIVE RunAlone(_, _, _)
RunAlone(sc, pf, n) ==
    IF n = 0 THEN <<>>
    ELSE LET r == ScanFn(sc, pf)
         IN  <<[tok |-> r.tok, lit |-> r.lit]>> \o RunAlone(r.s, r.pf, n - 1)

\* C10: each scanner owns its flag: the first Scan call of a scanner finds the
\* flag clear whatever other scanners did, and under every interleaving each
\* scanner returns the tokens it returns when run alone over its text.
C10_ScannersIndependent ==
    \A i \in live :
        /\ calls[i] # <<>> => ~calls[i][1].pf0
        /\ [k \in DOMAIN calls[i] |-> [tok |-> calls[i][k].tok, lit |-> calls[i][k].lit]]
               = RunAlone(newScanner(s[i].src), FALSE, Len(calls[i]))

\* The token kinds of the closed enumeration.
TokenKinds ==
    {tILLEGAL, tEOF, tATSIGN, tCOLON, tCOMMA, tEQUAL, tPOUND, tLBRACE, tRBRACE,
     tIDENT, tBAREIDENT, tCOMMENT, tPREAMBLE, tSTRING}

\* C11: every Scan call completes and returns a token of the closed
\* enumeration; it never fails at run time: unread is never executed with
\* column 0 and an empty line history (the index panic).
C11_ScanNeverPanics ==
    /\ \A i \in live : ~s[i].crashed
    /\ \A c \in Calls :
           /\ ~c.s1.crashed
           /\ c.tok \in TokenKinds

\* C11 witness: a Scan call pushed back the first rune of the text, stepping
\* the column from 1 back to 0 on an empty line history, and returned a bare
\* token.
C11_Witness ==
    \E c \in Calls :
        /\ c.s0.off = 0 /\ c.s0.pos = [Char |-> 0, Lines |-> <<>>]
        /\ EnteredBare(c) /\ DispatchAt(c) = 1
        /\ c.tok = tBAREIDENT
        /\ ~c.s1.crashed

\* Offsets of the newlines among the first n runes of str.
Newlines(str, n) == {p \in 1..n : str[p] = "\n"}

\* Offset of the last newline among the first n runes of str, 0 if none.
LastNewline(str, n) ==
    IF Newlines(str, n) = {} THEN 0
    ELSE CHOOSE p \in Newlines(str, n) : \A q \in Newlines(str, n) : q <= p

\* The cursor after consuming the first n runes of str: the widths of the
\* completed lines and the column on the current line.
CursorAt(str, n) ==
    [Char |-> n - LastNewline(str, n),
     Lines |-> [k \in 1..Cardinality(Newlines(str, n)) |->
                  LET p == CHOOSE q \in Newlines(str, n) :
                               Cardinality(Newlines(str, q)) = k
                  IN  p - 1 - LastNewline(str, p - 1)]]

\* C12: after any sequence of Scan calls the line history has one entry per
\* newline consumed, each the number of runes of that line, and the column is
\* the number of runes consumed since the last newline.
C12_CursorTracksInput ==
    /\ \A i \in live : s[i].pos = CursorAt(s[i].src, s[i].off)
    /\ \A c \in Calls : c.s1.pos = CursorAt(c.s1.src, c.s1.off)

\* C12 witness: a token was returned on the third line (two completed lines)
\* after a push-back on that line.
C12_Witness ==
    \E c \in Calls :
        /\ Len(c.s1.pos.Lines) = 2
        /\ c.tok = tBAREIDENT
        /\ c.s1.pos.Char = 1

\* C13: for any rune c, newline included, and any cursor: read() returning
\* c followed at once by unread() restores the column, the line history and
\* the read offset, and the next read() returns c again.
C13_UnreadInvertsRead ==
    \A i \in live : \A k \in DOMAIN ops[i] :
        (ops[i][k].op = "unread" /\ k > 1 /\ ops[i][k - 1].op = "read") =>
            /\ ops[i][k].s1.pos = ops[i][k - 1].s0.pos
            /\ ops[i][k].s1.off = ops[i][k - 1].s0.off
            /\ ~ops[i][k].s1.crashed
            /\ (k + 1 \in DOMAIN ops[i] /\ ops[i][k + 1].op = "read") =>
                   /\ ops[i][k + 1].ch = ops[i][k - 1].ch
                   /\ ops[i][k + 1].s1.pos = ops[i][k - 1].s1.pos

\* C13 witness: a newline read in mid-line was pushed back and read again.
C13_Witness ==
    \E i \in live : \E k \in DOMAIN ops[i] :
        /\ ops[i][k].op = "read" /\ ops[i][k].ch = "\n"
        /\ ops[i][k].s0.pos.Char > 0
        /\ k + 2 \in DOMAIN ops[i]
        /\ ops[i][k + 1].op = "unread"
        /\ ops[i][k + 2].op = "read" /\ ops[i][k + 2].ch = "\n"

\* C14: read() returns the end-of-input sentinel only when the text has no
\* more runes, and such a read leaves the cursor and the offset unchanged.
C14_SentinelOnlyAtEnd ==
    \A i \in live : \A k \in DOMAIN ops[i] :
        (ops[i][k].op = "read" /\ ops[i][k].ch = eof) =>
            /\ ops[i][k].s0.off >= Len(ops[i][k].s0.src)
            /\ ops[i][k].s1.pos = ops[i][k].s0.pos
            /\ ops[i][k].s1.off = ops[i][k].s0.off

\* C15: at end of input Scan returns kind EOF with an empty literal, and the
\* EOF kind is not the ILLEGAL kind: on a text without U+0000, a call returns
\* kind EOF only when nothing but whitespace was left to read.
C15_EofDistinctFromIllegal ==
    \A c \in Calls :
        Readable(c.s0.src, Len(c.s0.src)) =>
            /\ DispatchAt(c) = 0 => (c.tok = tEOF /\ c.lit = <<>>)
            /\ c.tok = tEOF => DispatchAt(c) = 0

\* A rune the bare scanner's loop accumulates.
InBareRun(ch) == isAlphanum(ch) \/ isBareSymbol(ch) \/ isWhitespace(ch)

\* Index of the last rune of the maximal run of such runes that starts at
\* the dispatched rune.
BareRunEnd(c) ==
    LET d == DispatchAt(c)
        stops == {p \in d..Len(c.s0.src) : ~InBareRun(c.s0.src[p])}
    IN  IF stops = {} THEN Len(c.s0.src) ELSE Min(stops) - 1

\* str without its trailing whitespace.
RECURSIVE TrimRight(_)
TrimRight(str) ==
    IF str # <<>> /\ isWhitespace(str[Len(str)])
    THEN TrimRight(SubSeq(str, 1, Len(str) - 1))
    ELSE str

\* C16: the bare scanner's literal is the maximal run of alphanumerics, bare
\* symbols and whitespace from the cursor with its trailing whitespace
\* removed; it is non-empty with no whitespace at either end; the rune that
\* ends the run is pushed back and is the next rune to be read; at end of
\* input nothing is pushed back.
C16_BareLiteral ==
    \A c \in Calls :
        EnteredBare(c) =>
            /\ c.lit = TrimRight(SubSeq(c.s0.src, DispatchAt(c), BareRunEnd(c)))
            /\ c.lit # <<>>
            /\ ~isWhitespace(c.lit[1]) /\ ~isWhitespace(c.lit[Len(c.lit)])
            /\ c.s1.off = BareRunEnd(c)

\* A rune Scan's switch has no case for: not alphanumeric and not one of
\* @ : , = " { } #.  Whitespace is not asked about: a dispatched rune is the
\* first one that is not whitespace.
IllegalRune(ch) ==
    ~isAlphanum(ch) /\ ch \notin {"@", ":", ",", "=", "\"", "{", "}", "#"}

\* C17: Scan dispatches on the first rune at or after the cursor that is not
\* whitespace.  It returns ILLEGAL from the top-level dispatch exactly when
\* that rune is an IllegalRune: the literal is that rune, the offset is just
\* past it and the flag is unchanged; for any other dispatched rune ILLEGAL
\* comes only from the braced or quoted scanner; with nothing but whitespace
\* left the literal is empty.  So no top-level ILLEGAL carries whitespace.
C17_Dispatch ==
    \A c \in Calls :
        LET d == DispatchAt(c)
        IN  /\ d = 0 => (c.lit = <<>> /\ c.s1.off = Len(c.s0.src))
            /\ d # 0 => c.s1.off >= d
            /\ (d # 0 /\ IllegalRune(c.s0.src[d])) =>
                   /\ c.tok = tILLEGAL /\ c.lit = <<c.s0.src[d]>>
                   /\ c.s1.off = d /\ c.pf1 = c.pf0
            /\ (d # 0 /\ ~IllegalRune(c.s0.src[d]) /\ c.tok = tILLEGAL) =>
                   EnteredBraced(c) \/ EnteredQuoted(c)
            /\ (c.tok = tILLEGAL /\ ~EnteredBraced(c) /\ ~EnteredQuoted(c)) =>
                   \A j \in DOMAIN c.lit : ~isWhitespace(c.lit[j])

\* C18: in every Scan call each unread() directly follows a read() that
\* returned a real rune: never a second unread in a row, never one after a
\* read that returned end of input.  (`misused` records any such unread.)
C18_UnreadFollowsRead ==
    /\ \A i \in live : ~s[i].misused
    /\ \A c \in Calls : ~c.s1.misused

\* C18 witness: a call that skipped whitespace, pushed back the first
\* non-whitespace rune twice (Scan, scanIdent) and then the rune that ended
\* the bare run, which is the next rune to be read.
C18_Witness ==
    \E c \in Calls :
        /\ EnteredBare(c) /\ DispatchAt(c) > c.s0.off + 1
        /\ c.s1.off < Len(c.s0.src) /\ c.s1.off = BareRunEnd(c)
        /\ c.s1.src[c.s1.off + 1] = "="
        /\ ~c.s1.misused

BareKinds == {tCOMMENT, tPREAMBLE, tSTRING, tIDENT, tBAREIDENT}

\* The reader as scanIdent finds it: Scan has pushed back the dispatched
\* rune, so that rune is the next one to be read.
IdentEntry(c) ==
    [c.s0 EXCEPT !.off = DispatchAt(c) - 1,
                 !.pos = CursorAt(c.s0.src, DispatchAt(c) - 1),
                 !.last = FALSE,
                 !.got = c.s0.src[DispatchAt(c)]]

\* C19: scanIdent is entered with an alphanumeric rune next, so its quoted
\* and braced branches are not taken: whenever the first non-whitespace rune
\* is alphanumeric, Scan returns what the bare scanner returns from that rune
\* on, a COMMENT, PREAMBLE, STRING, IDENT or BARE-IDENT whose literal starts
\* with that rune.
C19_IdentIsBare ==
    \A c \in Calls :
        EnteredBare(c) =>
            LET b == scanBare(IdentEntry(c), c.pf0)
            IN  /\ c.tok = b.tok /\ c.lit = b.lit
                /\ c.s1.off = b.s.off /\ c.pf1 = b.pf
                /\ c.tok \in BareKinds
                /\ c.lit # <<>> /\ c.lit[1] = c.s0.src[DispatchAt(c)]

\* C19 witness: after whitespace, a call dispatched on a digit with the flag
\* set returned an IDENT that starts with that digit.
C19_Witness ==
    \E c \in Calls :
        /\ EnteredBare(c) /\ DispatchAt(c) > c.s0.off + 1
        /\ c.s0.src[DispatchAt(c)] = "1"
        /\ c.tok = tIDENT /\ c.lit[1] = "1"

\* Cursor q is at or after cursor p.
NotBefore(p, q) ==
    \/ Len(p.Lines) < Len(q.Lines)
    \/ Len(p.Lines) = Len(q.Lines) /\ p.Char <= q.Char

\* C20: every Scan call that returns anything but the end-of-input token
\* leaves the read offset at least one rune further on, no call moves the
\* offset or the cursor backwards, and a scanner over a text of n runes has
\* returned the end-of-input token within its first n + 1 calls.
C20_Progress ==
    \A i \in live :
        /\ \A k \in DOMAIN calls[i] :
               LET c == calls[i][k]
               IN  /\ ~ReturnedEOF(c) => c.s1.off > c.s0.off
                   /\ c.s1.off >= c.s0.off
                   /\ NotBefore(c.s0.pos, c.s1.pos)
                   /\ k > 1 => c.s0.off = calls[i][k - 1].s1.off
        /\ Len(calls[i]) >= Len(s[i].src) + 1 =>
               \E k \in 1..(Len(s[i].src) + 1) : ReturnedEOF(calls[i][k])

\* C20 witness: a text of three runes took three calls of one rune each and
\* the fourth call, the (n + 1)-th, returned the end-of-input token.
C20_Witness ==
    \E i \in live :
        /\ Len(s[i].src) = 3 /\ Len(calls[i]) = 4
        /\ \A k \in 1..3 : /\ calls[i][k].tok # tEOF
                           /\ calls[i][k].s1.off = calls[i][k].s0.off + 1
        /\ ReturnedEOF(calls[i][4]) /\ DispatchAt(calls[i][4]) = 0

====
